---- MODULE Spec2Model ----
(***************************************************************************)
(* Model of src/src/day8.rs: the three-opcode interpreter (Program::step,  *)
(* Program::run with loop detection by visited address), the single        *)
(* instruction flip (Program::with_flipped_instruction) and the two        *)
(* queries built on them (part1, part2).                                   *)
(*                                                                         *)
(* Integers are Rust i32.  `+=` on i32 panics on overflow when the crate   *)
(* is compiled with overflow checks (the dev profile) and wraps around     *)
(* when it is compiled without (the release profile); both are modelled.   *)
(***************************************************************************)
EXTENDS Integers, Sequences, FiniteSets

VARIABLES
    instructions,           \* Program.instructions of the Program being executed
    accumulator,            \* Program.accumulator of that Program
    counter,                \* Program.counter of that Program
    executed_instructions,  \* run()'s local HashSet
    completion,             \* what run() returned ("none" while it has not)
    ret,                    \* what the last call of step() returned
    pc,                     \* position of the caller
    overflow_checks,        \* the build: "on", "off", or "unobserved"
    original,               \* part2's outer `program` (the decoded one)
    index,                  \* part2's position in the range 0..program.len()
    output,                 \* what part1 / part2 returned
    flipped,                \* what the last with_flipped_instruction returned
    caller,                 \* who drives the Program: "part1", "part2", "tests"
    trace,                  \* history: the values step() returned in this run
    tried,                  \* history: the runs part2 or a test has finished
    raw_input               \* the text part1 / part2 was called with

vars == << instructions, accumulator, counter, executed_instructions,
           completion, ret, pc, overflow_checks, original, index, output,
           flipped, caller, trace, tried, raw_input >>

----------------------------------------------------------------------------
(* Bounds of the model.                                                    *)

MaxLen == 3

MaxArg == 2

MaxSmallLen == 2

MaxCalls == 8

MaxLines == 2

MaxNewlines == 2

MaxRuns == 3

(* i32::MAX; i32::MIN is MinI32.                                           *)
MaxI32 == 2147483647

MinI32 == -MaxI32 - 1

----------------------------------------------------------------------------
(* enum Instruction                                                        *)

NoOperation(n) == [op |-> "NoOperation", arg |-> n]

Accumulate(n) == [op |-> "Accumulate", arg |-> n]

Jump(n) == [op |-> "Jump", arg |-> n]

(* Option<T>                                                               *)
None == [tag |-> "None"]

Some(v) == [tag |-> "Some", value |-> v]

(* anyhow::Result<i32>                                                     *)
Ok(v) == [tag |-> "Ok", value |-> v]

Err(msg) == [tag |-> "Err", message |-> msg]

(* The instruction arguments the model draws programs from: the small      *)
(* ones (backwards by one at most, forwards up to MaxArg), and the largest *)
(* i32 so that the additions can overflow.                                 *)
Args == (-1 .. MaxArg) \cup {MaxI32}

Instructions == {NoOperation(n) : n \in Args} \cup {Accumulate(n) : n \in Args}
                    \cup {Jump(n) : n \in Args}

InstructionSeqs(maxlen) == UNION {[1 .. n -> Instructions] : n \in 0 .. maxlen}

(* sample_program() of the tests.                                          *)
sample_program ==
    << NoOperation(0), Accumulate(1), Jump(4), Accumulate(3), Jump(-3),
       Accumulate(-99), Accumulate(1), Jump(-4), Accumulate(6) >>

----------------------------------------------------------------------------
(* i32 addition.                                                           *)

Overflows(a, b) ==
    \/ b > 0 /\ a > MaxI32 - b
    \/ b < 0 /\ a < MinI32 - b

(* a + b modulo 2^32, computed without leaving the i32 range.              *)
WrappingAdd(a, b) ==
    IF b > 0 /\ a > MaxI32 - b THEN (a - MaxI32 - 1) + (b - MaxI32 - 1)
    ELSE IF b < 0 /\ a < MinI32 - b THEN (a + MaxI32 + 1) + (b + MaxI32 + 1)
    ELSE a + b

(* The builds the run may still turn out to be: overflow checks are fixed  *)
(* at compile time and are observed at the first addition that overflows.  *)
Profiles ==
    IF overflow_checks = "unobserved" THEN {"on", "off"} ELSE {overflow_checks}

----------------------------------------------------------------------------
(* struct Program and its methods.                                         *)

Program(is, acc, ctr) == [instructions |-> is, accumulator |-> acc, counter |-> ctr]

(* impl FromIterator<Instruction> for Program                              *)
from_iter(iter) == Program(iter, 0, 0)

len(self) == Len(self.instructions)

(* Vec::get(index) with index = counter.try_into(): Some for 0 <= counter  *)
(* < len.                                                                  *)
ValidIndex(is, i) == i >= 0 /\ i < Len(is)

(* Faulty variant: NoOperation jumps by its argument.                              *)
DeltaNoOpJumps(instruction) ==
    IF instruction.op = "Accumulate" THEN 1 ELSE instruction.arg

(* lines 78-85: what the match adds to the counter.                       *)
Delta(instruction) == IF instruction.op = "Jump" THEN instruction.arg ELSE 1

(* Faulty variant: the counter is reported after it was advanced.                  *)
step_returns_new_counter(self, oc) ==
    IF ~ValidIndex(self.instructions, self.counter)
    THEN [self |-> self, ret |-> None, overflowed |-> FALSE, panicked |-> FALSE]
    ELSE
        LET instruction == self.instructions[self.counter + 1]
            accOv == instruction.op = "Accumulate"
                        /\ Overflows(self.accumulator, instruction.arg)
            acc1 == IF instruction.op = "Accumulate" /\ ~(accOv /\ oc = "on")
                    THEN WrappingAdd(self.accumulator, instruction.arg)
                    ELSE self.accumulator
            delta == Delta(instruction)
            ctrOv == Overflows(self.counter, delta)
            panics == oc = "on" /\ (accOv \/ ctrOv)
            ctr1 == IF panics THEN self.counter
                    ELSE WrappingAdd(self.counter, delta)
        IN  [self |-> Program(self.instructions, acc1, ctr1),
             ret |-> IF panics THEN None ELSE Some(ctr1),
             overflowed |-> accOv \/ ctrOv,
             panicked |-> panics]

(* Faulty variant: a counter that is no valid index is clamped to the end. *)
step_clamping_counter(self, oc) ==
    IF ~ValidIndex(self.instructions, self.counter)
    THEN [self |-> Program(self.instructions, self.accumulator, len(self)),
          ret |-> None, overflowed |-> FALSE, panicked |-> FALSE]
    ELSE
        LET instruction == self.instructions[self.counter + 1]
            accOv == instruction.op = "Accumulate"
                        /\ Overflows(self.accumulator, instruction.arg)
            acc1 == IF instruction.op = "Accumulate" /\ ~(accOv /\ oc = "on")
                    THEN WrappingAdd(self.accumulator, instruction.arg)
                    ELSE self.accumulator
            delta == Delta(instruction)
            ctrOv == Overflows(self.counter, delta)
            panics == oc = "on" /\ (accOv \/ ctrOv)
            ctr1 == IF panics THEN self.counter
                    ELSE WrappingAdd(self.counter, delta)
        IN  [self |-> Program(self.instructions, acc1, ctr1),
             ret |-> IF panics THEN None ELSE Some(self.counter),
             overflowed |-> accOv \/ ctrOv,
             panicked |-> panics]

(* Program::step under build oc.  Yields the Program after the call, the   *)
(* returned Option, whether an addition overflowed, and whether the call   *)
(* panicked instead of returning.                                          *)
step(self, oc) ==
    IF ~ValidIndex(self.instructions, self.counter)
    THEN [self |-> self, ret |-> None, overflowed |-> FALSE, panicked |-> FALSE]
    ELSE
        LET instruction == self.instructions[self.counter + 1]
            accOv == instruction.op = "Accumulate"
                        /\ Overflows(self.accumulator, instruction.arg)
            acc1 == IF instruction.op = "Accumulate" /\ ~(accOv /\ oc = "on")
                    THEN WrappingAdd(self.accumulator, instruction.arg)
                    ELSE self.accumulator
            delta == Delta(instruction)
            ctrOv == Overflows(self.counter, delta)
            panics == oc = "on" /\ (accOv \/ ctrOv)
            ctr1 == IF panics THEN self.counter
                    ELSE WrappingAdd(self.counter, delta)
        IN  [self |-> Program(self.instructions, acc1, ctr1),
             ret |-> IF panics THEN None ELSE Some(self.counter),
             overflowed |-> accOv \/ ctrOv,
             panicked |-> panics]

Observe(r, oc) == IF r.overflowed THEN oc ELSE overflow_checks

(* The Program the variables hold.                                         *)
Self == Program(instructions, accumulator, counter)

----------------------------------------------------------------------------
(* Faulty variant: the flipped instruction loses its argument.                    *)
new_instruction_drops_argument(instruction) ==
    IF instruction.op = "NoOperation" THEN Some(Jump(0))
    ELSE IF instruction.op = "Jump" THEN Some(NoOperation(0))
    ELSE None

(* Faulty variant: an Accumulate is handed back as it is, not refused.     *)
new_instruction_keeping_accumulate(instruction) ==
    IF instruction.op = "NoOperation" THEN Some(Jump(instruction.arg))
    ELSE IF instruction.op = "Jump" THEN Some(NoOperation(instruction.arg))
    ELSE Some(instruction)

(* lines 117-121: the match; None stands for its `return None`.            *)
new_instruction(instruction) ==
    IF instruction.op = "NoOperation" THEN Some(Jump(instruction.arg))
    ELSE IF instruction.op = "Jump" THEN Some(NoOperation(instruction.arg))
    ELSE None

(* Faulty variant: the variant is a clone of the receiver, run-state included.     *)
with_flipped_instruction_cloning_self(self, i) ==
    IF ~ValidIndex(self.instructions, i)
    THEN [self |-> self, ret |-> None]
    ELSE
        LET flip == new_instruction(self.instructions[i + 1])
        IN  IF flip = None
            THEN [self |-> self, ret |-> None]
            ELSE
                LET new_instructions ==
                        [self.instructions EXCEPT ![i + 1] = flip.value]
                IN  [self |-> self,
                     ret |-> Some(Program(new_instructions, self.accumulator,
                                          self.counter))]

(* Program::with_flipped_instruction(&self, index).  Yields the receiver  *)
(* after the call and the returned Option<Program>.                        *)
with_flipped_instruction(self, i) ==
    IF ~ValidIndex(self.instructions, i)
    THEN [self |-> self, ret |-> None]
    ELSE
        LET flip == new_instruction(self.instructions[i + 1])
        IN  IF flip = None
            THEN [self |-> self, ret |-> None]
            ELSE
                LET new_instructions ==
                        [self.instructions EXCEPT ![i + 1] = flip.value]
                IN  [self |-> self, ret |-> Some(from_iter(new_instructions))]

(* Faulty variant: the last valid index is taken for the end.                     *)
HaltedOffByOne(self) ==
    IF self.counter >= len(self) THEN "Finished" ELSE "OutOfBounds"

(* lines 103-107: the classification when step() executed nothing.        *)
Halted(self) ==
    IF self.counter = len(self) THEN "Finished" ELSE "OutOfBounds"

(* Faulty variant: the address is never recorded.                                  *)
InsertedNothing(executed, instruction, self) == executed

(* Faulty variant: the address recorded is the one step() moved to.                *)
InsertedNext(executed, instruction, self) == executed \cup {self.counter}

(* line 110: executed_instructions.insert(instruction), with `instruction` *)
(* the counter read at the top of the iteration and `self` the Program     *)
(* after step().                                                           *)
Inserted(executed, instruction, self) == executed \cup {instruction}

(* Program::run as a whole, from the Program's current state: the loop of  *)
(* lines 95-111 with `executed` the HashSet so far.                        *)
RECURSIVE run_from(_, _, _)
run_from(self, executed, oc) ==
    IF self.counter \in executed
    THEN [self |-> self, completion |-> "Loop", panicked |-> FALSE]
    ELSE
        LET r == step(self, oc)
        IN  IF r.panicked
            THEN [self |-> r.self, completion |-> "none", panicked |-> TRUE]
            ELSE IF r.ret = None
            THEN [self |-> r.self,
                  completion |-> Halted(r.self),
                  panicked |-> FALSE]
            ELSE run_from(r.self, Inserted(executed, self.counter, r.self), oc)

run(self, oc) == run_from(self, {}, oc)

----------------------------------------------------------------------------
(* Program::run, one loop iteration per action.                            *)

(* lines 98-100: the address was executed before.                          *)
run_loop ==
    /\ pc = "run"
    /\ counter \in executed_instructions
    /\ completion' = "Loop"
    /\ pc' = "returned"
    /\ UNCHANGED << instructions, accumulator, counter, executed_instructions,
                    ret, overflow_checks, original, index, output, flipped,
                    caller, trace, tried,
                    raw_input >>

(* lines 102-110: step(), then halt or record the address.                 *)
run_step ==
    /\ pc = "run"
    /\ counter \notin executed_instructions
    /\ \E oc \in Profiles :
        LET instruction == counter
            r == step(Self, oc)
        IN  /\ accumulator' = r.self.accumulator
            /\ counter' = r.self.counter
            /\ overflow_checks' = Observe(r, oc)
            /\ ret' = r.ret
            /\ trace' = Append(trace, r.ret)
            /\ IF r.panicked
               THEN /\ pc' = "panicked"
                    /\ UNCHANGED << completion, executed_instructions >>
               ELSE IF r.ret = None
               THEN /\ completion' = Halted(r.self)
                    /\ pc' = "returned"
                    /\ UNCHANGED executed_instructions
               ELSE /\ executed_instructions' =
                            Inserted(executed_instructions, instruction, r.self)
                    /\ UNCHANGED << completion, pc >>
    /\ UNCHANGED << instructions, original, index, output, flipped, caller,
                    tried,
                    raw_input >>

----------------------------------------------------------------------------
(* part1: run the decoded program, require Loop.                           *)

(* Faulty variant: only an OutOfBounds run is refused.                             *)
part1_result_finished_ok(state, self) ==
    IF state = "OutOfBounds" THEN Err("Loop not found in program")
    ELSE Ok(self.accumulator)

(* lines 158-162 *)
part1_result(state, self) ==
    IF state # "Loop" THEN Err("Loop not found in program")
    ELSE Ok(self.accumulator)

part1 ==
    /\ caller = "part1"
    /\ pc = "returned"
    /\ output' = part1_result(completion, Self)
    /\ pc' = "done"
    /\ UNCHANGED << instructions, accumulator, counter, executed_instructions,
                    completion, ret, overflow_checks, original, index, flipped,
                    caller, trace, tried,
                    raw_input >>

----------------------------------------------------------------------------
(* part2: flip one instruction after the other, run each variant.          *)

(* Faulty variant: any variant that does not loop is taken.                        *)
RepairedNoLoop(state) == state # "Loop"

(* Faulty variant: a default value instead of the error.                           *)
part2_bailed_default == Ok(0)

(* line 172: the test a variant's run must pass.                          *)
Repaired(state) == state = "Finished"

(* line 177 *)
part2_bailed == Err("No correct programs found")

(* Faulty variant: the set of executed addresses outlives a run.           *)
part2_next_keeping_visited ==
    /\ caller = "part2"
    /\ pc = "part2"
    /\ index < len(original)
    /\ LET r == with_flipped_instruction(original, index)
       IN  /\ original' = r.self
           /\ flipped' = r.ret
           /\ index' = index + 1
           /\ IF r.ret = None
              THEN UNCHANGED << instructions, accumulator, counter,
                                executed_instructions, completion, pc, trace >>
              ELSE /\ instructions' = r.ret.value.instructions
                   /\ accumulator' = r.ret.value.accumulator
                   /\ counter' = r.ret.value.counter
                   /\ UNCHANGED executed_instructions
                   /\ completion' = "none"
                   /\ trace' = << >>
                   /\ pc' = "run"
    /\ UNCHANGED << ret, overflow_checks, output, caller, tried,
                    raw_input >>

(* The for loop asks modified_programs for its next item: the range yields *)
(* the next index and filter_map keeps the variant if there is one, which  *)
(* the loop body then starts to run.                                       *)
part2_next ==
    /\ caller = "part2"
    /\ pc = "part2"
    /\ index < len(original)
    /\ LET r == with_flipped_instruction(original, index)
       IN  /\ original' = r.self
           /\ flipped' = r.ret
           /\ index' = index + 1
           /\ IF r.ret = None
              THEN UNCHANGED << instructions, accumulator, counter,
                                executed_instructions, completion, pc, trace >>
              ELSE /\ instructions' = r.ret.value.instructions
                   /\ accumulator' = r.ret.value.accumulator
                   /\ counter' = r.ret.value.counter
                   /\ executed_instructions' = {}
                   /\ completion' = "none"
                   /\ trace' = << >>
                   /\ pc' = "run"
    /\ UNCHANGED << ret, overflow_checks, output, caller, tried,
                    raw_input >>

(* line 172-174: the variant's run returned.                               *)
part2_check ==
    /\ caller = "part2"
    /\ pc = "returned"
    /\ tried' = Append(tried, [index |-> index - 1,
                               instructions |-> instructions,
                               completion |-> completion,
                               accumulator |-> accumulator])
    /\ IF Repaired(completion)
       THEN /\ output' = Ok(accumulator)
            /\ pc' = "done"
       ELSE /\ pc' = "part2"
            /\ UNCHANGED output
    /\ UNCHANGED << instructions, accumulator, counter, executed_instructions,
                    completion, ret, overflow_checks, original, index, flipped,
                    caller, trace,
                    raw_input >>

(* line 177: the range is exhausted.                                       *)
part2_bail ==
    /\ caller = "part2"
    /\ pc = "part2"
    /\ ~(index < len(original))
    /\ output' = part2_bailed
    /\ pc' = "done"
    /\ UNCHANGED << instructions, accumulator, counter, executed_instructions,
                    completion, ret, overflow_checks, original, index, flipped,
                    caller, trace, tried,
                    raw_input >>

----------------------------------------------------------------------------
(* mod tests: a Program driven through its methods directly, as            *)
(* test_step_program does.                                                 *)

test_step ==
    /\ caller = "tests"
    /\ pc = "test"
    /\ Len(trace) < MaxCalls
    /\ \E oc \in Profiles :
        LET r == step(Self, oc)
        IN  /\ accumulator' = r.self.accumulator
            /\ counter' = r.self.counter
            /\ overflow_checks' = Observe(r, oc)
            /\ ret' = r.ret
            /\ trace' = Append(trace, r.ret)
            /\ pc' = IF r.panicked THEN "panicked" ELSE "test"
    /\ UNCHANGED << instructions, executed_instructions, completion, original,
                    index, output, flipped, caller, tried,
                    raw_input >>

test_flip ==
    /\ caller = "tests"
    /\ pc = "test"
    /\ \E i \in 0 .. Len(instructions) :
        LET r == with_flipped_instruction(Self, i)
        IN  /\ instructions' = r.self.instructions
            /\ accumulator' = r.self.accumulator
            /\ counter' = r.self.counter
            /\ flipped' = r.ret
            /\ index' = i
    /\ pc' = "flipped"
    /\ UNCHANGED << executed_instructions, completion, ret, overflow_checks,
                    original, output, caller, trace, tried,
                    raw_input >>

(* test_find_loop, line 291: the test calls run() on the Program it holds, *)
(* whatever state an earlier call left it in.  Line 93: the call starts    *)
(* with a HashSet of its own.                                              *)
test_run ==
    /\ caller = "tests"
    /\ pc = "test"
    /\ Len(tried) < MaxRuns
    /\ executed_instructions' = {}
    /\ completion' = "none"
    /\ trace' = << >>
    /\ pc' = "run"
    /\ UNCHANGED << instructions, accumulator, counter, ret, overflow_checks,
                    original, index, output, flipped, caller, tried,
                    raw_input >>

(* line 291-293: run() returned to the test, which looks at the result.    *)
test_run_returned ==
    /\ caller = "tests"
    /\ pc = "returned"
    /\ tried' = Append(tried, [index |-> Len(tried),
                               instructions |-> instructions,
                               completion |-> completion,
                               accumulator |-> accumulator,
                               counter |-> counter])
    /\ pc' = "test"
    /\ UNCHANGED << instructions, accumulator, counter, executed_instructions,
                    completion, ret, overflow_checks, original, index, output,
                    flipped, caller, trace, raw_input >>

----------------------------------------------------------------------------
(* Decoding.  A text (a &str) is a sequence of one-character strings.      *)

(* char::is_whitespace: the code points with the White_Space property.     *)
(* U+0009..U+000D, U+0020, U+0085, U+00A0 and U+1680 are listed.  The      *)
(* others (U+2000..U+200A, U+2028, U+2029, U+202F, U+205F, U+3000) cannot  *)
(* be written in a string of TLA+, so no text here can hold one.           *)
Whitespace ==
    {"\t", "\n", "", "\f", "\r", " ", "", " ", " "}

(* The position of the first character of s that is in set, 0 if none.     *)
Find(s, set) ==
    LET found == {k \in 1 .. Len(s) : s[k] \in set}
    IN  IF found = {} THEN 0
        ELSE CHOOSE k \in found : \A j \in found : k <= j

(* str::lines: the text is cut after every "\n"; a line loses its "\n"    *)
(* and a "\r" right before it.  What follows the last "\n" is a line      *)
(* only if it is not empty.                                                *)
StripLineEnding(line) ==
    IF line # << >> /\ line[Len(line)] = "\r"
    THEN SubSeq(line, 1, Len(line) - 1)
    ELSE line

RECURSIVE lines(_)
lines(s) ==
    IF s = << >> THEN << >>
    ELSE LET nl == Find(s, {"\n"})
         IN  IF nl = 0 THEN << s >>
             ELSE << StripLineEnding(SubSeq(s, 1, nl - 1)) >>
                      \o lines(SubSeq(s, nl + 1, Len(s)))

(* str::split_whitespace: the maximal runs of non-whitespace, in order.    *)
RECURSIVE split_whitespace(_)
split_whitespace(s) ==
    IF s = << >> THEN << >>
    ELSE IF Head(s) \in Whitespace THEN split_whitespace(Tail(s))
    ELSE LET ws == Find(s, Whitespace)
         IN  IF ws = 0 THEN << s >>
             ELSE << SubSeq(s, 1, ws - 1) >>
                      \o split_whitespace(SubSeq(s, ws + 1, Len(s)))

(* char::to_digit(10) *)
to_digit(c) ==
    CASE c = "0" -> Some(0) [] c = "1" -> Some(1) [] c = "2" -> Some(2)
      [] c = "3" -> Some(3) [] c = "4" -> Some(4) [] c = "5" -> Some(5)
      [] c = "6" -> Some(6) [] c = "7" -> Some(7) [] c = "8" -> Some(8)
      [] c = "9" -> Some(9) [] OTHER -> None

(* The ParseIntError kinds of i32::from_str, by their messages.            *)
Empty == Err("cannot parse integer from empty string")
InvalidDigit == Err("invalid digit found in string")
PosOverflow == Err("number too large to fit in target type")
NegOverflow == Err("number too small to fit in target type")

(* The digit loop of i32::from_str: result * 10 + digit for a positive     *)
(* number, result * 10 - digit for a negative one, both checked.           *)
RECURSIVE parse_digits(_, _, _)
parse_digits(digits, is_positive, result) ==
    IF digits = << >> THEN Ok(result)
    ELSE LET x == to_digit(Head(digits))
             overflow == IF is_positive THEN PosOverflow ELSE NegOverflow
         IN  IF x.tag = "None" THEN InvalidDigit
             ELSE IF result > MaxI32 \div 10 \/ result < -(MaxI32 \div 10)
             THEN overflow
             ELSE IF is_positive /\ x.value > MaxI32 - result * 10
             THEN overflow
             ELSE IF ~is_positive /\ -x.value < MinI32 - result * 10
             THEN overflow
             ELSE parse_digits(Tail(digits), is_positive,
                               IF is_positive THEN result * 10 + x.value
                               ELSE result * 10 - x.value)

(* Faulty variant: a leading "-" is read like a "+".                       *)
i32_from_str_ignoring_sign(src) ==
    IF src = << >> THEN Empty
    ELSE IF src = << "+" >> \/ src = << "-" >> THEN InvalidDigit
    ELSE IF Head(src) \in {"+", "-"} THEN parse_digits(Tail(src), TRUE, 0)
    ELSE parse_digits(src, TRUE, 0)

(* i32::from_str (str::parse::<i32>), line 31.                             *)
i32_from_str(src) ==
    IF src = << >> THEN Empty
    ELSE IF src = << "+" >> \/ src = << "-" >> THEN InvalidDigit
    ELSE IF Head(src) = "+" THEN parse_digits(Tail(src), TRUE, 0)
    ELSE IF Head(src) = "-" THEN parse_digits(Tail(src), FALSE, 0)
    ELSE parse_digits(src, TRUE, 0)

(* line 37: the message names the mnemonic it was given.                   *)
InvalidInstruction(instruction_str) ==
    [tag |-> "Err", message |-> "Invalid instruction: {}",
     args |-> << instruction_str >>]

(* Instruction::from_str, lines 17-41. *)
Instruction_from_str(s) ==
    LET chunks == split_whitespace(s)
    IN  IF Len(chunks) < 1 THEN Err("Could not parse instruction chunk")
        ELSE IF Len(chunks) < 2 THEN Err("Could not parse count chunk")
        ELSE LET instruction_str == chunks[1]
                 count_str == chunks[2]
                 value == i32_from_str(count_str)
             IN  IF value.tag = "Err" THEN value
                 ELSE IF instruction_str = << "n", "o", "p" >>
                 THEN Ok(NoOperation(value.value))
                 ELSE IF instruction_str = << "a", "c", "c" >>
                 THEN Ok(Accumulate(value.value))
                 ELSE IF instruction_str = << "j", "m", "p" >>
                 THEN Ok(Jump(value.value))
                 ELSE InvalidInstruction(instruction_str)

(* Faulty variant: a line that does not decode is left out.                *)
Program_from_str_skipping(s) ==
    LET decoded == [k \in 1 .. Len(lines(s)) |->
                        Instruction_from_str(lines(s)[k])]
        good == SelectSeq(decoded, LAMBDA r : r.tag = "Ok")
    IN  Ok(from_iter([k \in 1 .. Len(good) |-> good[k].value]))

(* Program::from_str, lines 143-152: every line is decoded, in order; the  *)
(* first error ends the collect and is returned.                           *)
Program_from_str(s) ==
    LET decoded == [k \in 1 .. Len(lines(s)) |->
                        Instruction_from_str(lines(s)[k])]
        failed == {k \in 1 .. Len(decoded) : decoded[k].tag = "Err"}
    IN  IF failed = {}
        THEN Ok(from_iter([k \in 1 .. Len(decoded) |-> decoded[k].value]))
        ELSE decoded[CHOOSE k \in failed : \A j \in failed : k <= j]

(* line 156: `raw_input.parse()?` in part1.  Until it is decoded there is  *)
(* no Program: `original` is None and the run-state is empty.              *)
part1_parse ==
    /\ caller = "part1"
    /\ pc = "parse"
    /\ LET r == Program_from_str(raw_input)
       IN  IF r.tag = "Err"
           THEN /\ output' = r
                /\ pc' = "done"
                /\ UNCHANGED << instructions, accumulator, counter, original >>
           ELSE /\ instructions' = r.value.instructions
                /\ accumulator' = r.value.accumulator
                /\ counter' = r.value.counter
                /\ original' = r.value
                /\ pc' = "run"
                /\ UNCHANGED output
    /\ UNCHANGED << executed_instructions, completion, ret, overflow_checks,
                    index, flipped, caller, trace, tried, raw_input >>

(* line 166: `raw_input.parse()?` in part2.                                *)
part2_parse ==
    /\ caller = "part2"
    /\ pc = "parse"
    /\ LET r == Program_from_str(raw_input)
       IN  IF r.tag = "Err"
           THEN /\ output' = r
                /\ pc' = "done"
                /\ UNCHANGED << instructions, accumulator, counter, original >>
           ELSE /\ instructions' = r.value.instructions
                /\ accumulator' = r.value.accumulator
                /\ counter' = r.value.counter
                /\ original' = r.value
                /\ pc' = "part2"
                /\ UNCHANGED output
    /\ UNCHANGED << executed_instructions, completion, ret, overflow_checks,
                    index, flipped, caller, trace, tried, raw_input >>

----------------------------------------------------------------------------
(* The texts the queries are given.                                        *)

(* Lines of text a program text is made of, each with what it is (its      *)
(* form) and, for a line of the documented format, the instruction it      *)
(* writes down.                                                            *)
Line(text, form, instruction) ==
    [text |-> text, form |-> form, instruction |-> instruction]

Lines ==
    { Line(<< "n", "o", "p", " ", "+", "0" >>, "valid", NoOperation(0)),
      Line(<< "a", "c", "c", " ", "+", "1" >>, "valid", Accumulate(1)),
      Line(<< "a", "c", "c", " ", "-", "9", "9" >>, "valid", Accumulate(-99)),
      Line(<< "j", "m", "p", " ", "+", "4" >>, "valid", Jump(4)),
      Line(<< "n", "o", "p", "", "\t", "-", "1", " " >>, "valid",
           NoOperation(-1)),
      Line(<< "j", "m", "p", " ", "-", "1" >>, "valid", Jump(-1)),
      Line(<< "a", "c", "c", " ", "+", "2", "1", "4", "7", "4", "8", "3",
              "6", "4", "7" >>, "valid", Accumulate(MaxI32)),
      Line(<< "j", "m", "p", " ", "-", "2", "1", "4", "7", "4", "8", "3",
              "6", "4", "8" >>, "valid", Jump(MinI32)),
      Line(<< "f", "o", "o", " ", "+", "1" >>, "unknown mnemonic", None),
      Line(<< "a", "c", "c" >>, "missing token", None),
      Line(<< "a", "c", "c", " ", "x" >>, "non-integer argument", None),
      Line(<< "j", "m", "p", " ", "+" >>, "non-integer argument", None),
      Line(<< "a", "c", "c", " ", "+", "2", "1", "4", "7", "4", "8", "3",
              "6", "4", "8" >>, "argument out of range", None),
      Line(<< " " >>, "blank", None),
      Line(<< "a", "c", "c", " ", "7" >>, "no sign", None),
      Line(<< "n", "o", "p", " ", "+", "0", " ", "j", "m", "p" >>,
           "additional token", None) }

LineSeqs(maxlen) == UNION { [1 .. n -> Lines] : n \in 0 .. maxlen }

(* The lines, one "\n" between two of them and t of them at the end.       *)
RECURSIVE Join(_)
Join(ls) ==
    IF ls = << >> THEN << >>
    ELSE IF Len(ls) = 1 THEN ls[1].text
    ELSE ls[1].text \o << "\n" >> \o Join(Tail(ls))

Text(ls, t) == Join(ls) \o [k \in 1 .. t |-> "\n"]

Texts == { Text(ls, t) : ls \in LineSeqs(MaxLines), t \in 0 .. MaxNewlines }

(* The text a decoded program was read from: every instruction on a line   *)
(* of its own, in the format of test_parse_program.                        *)
Digits == << "0", "1", "2", "3", "4", "5", "6", "7", "8", "9" >>

RECURSIVE Decimal(_)
Decimal(n) ==
    LET d == IF n >= 0 THEN n % 10 ELSE (10 - (n % 10)) % 10
        rest == IF n >= 0 THEN n \div 10 ELSE (n + d) \div 10
    IN  IF rest = 0 THEN << Digits[d + 1] >>
        ELSE Decimal(rest) \o << Digits[d + 1] >>

Mnemonic(instruction) ==
    CASE instruction.op = "NoOperation" -> << "n", "o", "p" >>
      [] instruction.op = "Accumulate" -> << "a", "c", "c" >>
      [] instruction.op = "Jump" -> << "j", "m", "p" >>

WrittenLine(instruction) ==
    Line(Mnemonic(instruction) \o << " " >>
            \o (IF instruction.arg < 0 THEN << "-" >> ELSE << "+" >>)
            \o Decimal(instruction.arg),
         "valid", instruction)

Written(is) ==
    IF is = << >> THEN << >>
    ELSE Text([k \in 1 .. Len(is) |-> WrittenLine(is[k])], 1)

----------------------------------------------------------------------------
(* The decoded programs the queries are given, and the smaller set the     *)
(* tests build.                                                            *)
Programs == InstructionSeqs(MaxLen) \cup {sample_program}

SmallPrograms == InstructionSeqs(MaxSmallLen) \cup {sample_program}

Fresh(is) ==
    /\ instructions = is
    /\ accumulator = from_iter(is).accumulator
    /\ counter = from_iter(is).counter
    /\ original = from_iter(is)
    /\ executed_instructions = {}
    /\ completion = "none"
    /\ ret = None
    /\ overflow_checks = "unobserved"
    /\ index = 0
    /\ output = None
    /\ flipped = None
    /\ trace = << >>
    /\ tried = << >>

(* part1 and part2 decoded the program from its text; the tests build it   *)
(* from a vector, without a text.                                          *)
Decoded(is) == Fresh(is) /\ raw_input = Written(is)

Init ==
    \/ /\ caller = "part1"
       /\ pc = "run"
       /\ \E is \in Programs : Decoded(is)
    \/ /\ caller = "part2"
       /\ pc = "part2"
       /\ \E is \in Programs : Decoded(is)
    \/ /\ caller = "tests"
       /\ pc = "test"
       /\ raw_input = << >>
       /\ \E is \in SmallPrograms : Fresh(is)

Next ==
    \/ run_loop
    \/ run_step
    \/ part1
    \/ part2_next
    \/ part2_check
    \/ part2_bail
    \/ test_step
    \/ test_flip

Spec == Init /\ [][Next]_vars

(* One call of run() from a fresh run-state, as part1 makes it, on the     *)
(* smaller programs.  run() and part1 are straight-line sequential code:   *)
(* a call that can take its next step takes it.                            *)
RunInit ==
    /\ caller = "part1"
    /\ pc = "run"
    /\ \E is \in SmallPrograms : Decoded(is)

RunNext == run_loop \/ run_step \/ part1

FairRunSpec == RunInit /\ [][RunNext]_vars /\ WF_vars(RunNext)

(* One call of part2 on the smaller programs; sequential code as well.     *)
Part2Init ==
    /\ caller = "part2"
    /\ pc = "part2"
    /\ \E is \in SmallPrograms : Decoded(is)

Part2Next ==
    run_loop \/ run_step \/ part2_next \/ part2_check \/ part2_bail

FairPart2Spec == Part2Init /\ [][Part2Next]_vars /\ WF_vars(Part2Next)

(* A test that calls run() on its Program again and again.                 *)
RerunInit ==
    /\ caller = "tests"
    /\ pc = "test"
    /\ raw_input = << >>
    /\ \E is \in Programs : Fresh(is)

RerunNext == test_run \/ run_loop \/ run_step \/ test_run_returned

RerunSpec == RerunInit /\ [][RerunNext]_vars

(* part1 and part2 from their first line, on a text.                       *)
Unparsed(text) ==
    /\ raw_input = text
    /\ instructions = << >>
    /\ accumulator = 0
    /\ counter = 0
    /\ original = None
    /\ executed_instructions = {}
    /\ completion = "none"
    /\ ret = None
    /\ overflow_checks = "unobserved"
    /\ index = 0
    /\ output = None
    /\ flipped = None
    /\ trace = << >>
    /\ tried = << >>

DecodeInit ==
    /\ caller \in {"part1", "part2"}
    /\ pc = "parse"
    /\ \E text \in Texts : Unparsed(text)

DecodeNext ==
    \/ part1_parse
    \/ part2_parse
    \/ run_loop
    \/ run_step
    \/ part1
    \/ part2_next
    \/ part2_check
    \/ part2_bail

DecodeSpec == DecodeInit /\ [][DecodeNext]_vars

----------------------------------------------------------------------------
(* Claims.                                                                 *)

(* `trace` is the history of the run() in progress when part1 or part2     *)
(* drives the Program: every run() there starts from a fresh run-state.    *)
InRun == caller \in {"part1", "part2"}

(* The addresses step() executed, in order.                                *)
Executed == SelectSeq(trace, LAMBDA o : o.tag = "Some")

ExecutedSet == {Executed[k].value : k \in 1 .. Len(Executed)}

(* a + b + ... in i32 arithmetic, over the Accumulate instructions at the  *)
(* addresses of `addrs`, in order.                                         *)
RECURSIVE AccumulateSum(_, _)
AccumulateSum(is, addrs) ==
    IF addrs = << >> THEN 0
    ELSE LET front == SubSeq(addrs, 1, Len(addrs) - 1)
             instruction == is[addrs[Len(addrs)].value + 1]
         IN  IF instruction.op = "Accumulate"
             THEN WrappingAdd(AccumulateSum(is, front), instruction.arg)
             ELSE AccumulateSum(is, front)

NoDuplicates(seq) ==
    \A j, k \in 1 .. Len(seq) : seq[j] = seq[k] => j = k

(* C1: run() from a fresh run-state terminates, after at most length + 1   *)
(* calls of step(): run() is eventually left (it returns, or the process   *)
(* aborts on an overflowing addition), and the number of step() calls of   *)
(* a run never exceeds the number of instructions plus one.                *)
C1_RunTerminates ==
    /\ [](InRun => Len(trace) <= Len(instructions) + 1)
    /\ <>(pc \in {"returned", "panicked", "done"})

C1_Witness ==
    /\ InRun
    /\ pc = "returned"
    /\ Len(instructions) = MaxSmallLen
    /\ Len(trace) = Len(instructions) + 1

(* C2: when run() from a fresh run-state is about to execute an address    *)
(* it already executed, it returns Loop and executes nothing more: no      *)
(* address is executed twice, a returned Loop has the counter at an        *)
(* executed address, and the accumulator is the sum (in i32 arithmetic)    *)
(* of the arguments of the Accumulate instructions executed, each counted  *)
(* once.  The sample program returns Loop with accumulator 5.              *)
C2_LoopBeforeSecondExecution ==
    InRun =>
        /\ NoDuplicates(Executed)
        /\ pc = "run" /\ counter \in ExecutedSet => ENABLED run_loop
        /\ pc = "returned" /\ counter \in ExecutedSet => completion = "Loop"
        /\ pc = "returned" /\ completion = "Loop" =>
                /\ counter \in ExecutedSet
                /\ accumulator = AccumulateSum(instructions, Executed)
        /\ caller = "part1" /\ instructions = sample_program /\ pc = "returned" =>
                completion = "Loop" /\ accumulator = 5

C2_Witness ==
    /\ caller = "part1"
    /\ instructions = sample_program
    /\ pc = "returned"
    /\ completion = "Loop"
    /\ accumulator = 5
    /\ Len(Executed) = 7

(* C3: part1 returns the accumulator exactly when run() on the freshly     *)
(* decoded program classifies as Loop, and returns the error "Loop not     *)
(* found in program" when it classifies as Finished or OutOfBounds.        *)
C3_Part1RequiresLoop ==
    caller = "part1" =>
        /\ pc # "done" => output = None
        /\ pc = "done" =>
            \A oc \in Profiles :
                LET r == run(original, oc)
                IN  /\ ~r.panicked
                    /\ r.completion = "Loop" <=> output.tag = "Ok"
                    /\ r.completion = "Loop" => output = Ok(r.self.accumulator)
                    /\ r.completion \in {"Finished", "OutOfBounds"} =>
                            output = Err("Loop not found in program")
                    /\ output.tag \in {"Ok", "Err"}

C3_Witness ==
    /\ caller = "part1"
    /\ pc = "done"
    /\ completion = "Finished"
    /\ output = Err("Loop not found in program")
    /\ accumulator # 0

(* The flip, stated from the specification: slot i swapped between NoOp    *)
(* and Jump with its argument kept, every other slot as it was.            *)
Flippable(is, i) ==
    i \in 0 .. Len(is) - 1 /\ is[i + 1].op \in {"NoOperation", "Jump"}

FlipAt(is, i) ==
    [is EXCEPT ![i + 1] = IF @.op = "NoOperation" THEN Jump(@.arg)
                          ELSE NoOperation(@.arg)]

FlippableIndices(is) == {i \in 0 .. Len(is) - 1 : Flippable(is, i)}

(* The run of the variant flipped at i, taken alone from a fresh           *)
(* run-state, and the indices whose variant runs to Finished.              *)
VariantRun(is, i, oc) == run(from_iter(FlipAt(is, i)), oc)

Repairs(is, oc) ==
    {i \in FlippableIndices(is) :
        ~VariantRun(is, i, oc).panicked
            /\ VariantRun(is, i, oc).completion = "Finished"}

Min(S) == CHOOSE x \in S : \A y \in S : x <= y

TriedIndices == [k \in 1 .. Len(tried) |-> tried[k].index]

Ascending(seq) == \A j, k \in 1 .. Len(seq) : j < k => seq[j] < seq[k]

Range(seq) == {seq[k] : k \in 1 .. Len(seq)}

(* C4: part2 goes through the flip indices in ascending order and returns  *)
(* the final accumulator of the variant with the smallest index whose      *)
(* instruction is NoOp or Jump and whose variant runs to Finished;         *)
(* variants with larger indices are not run.                               *)
C4_Part2FirstRepair ==
    caller = "part2" =>
        /\ Ascending(TriedIndices)
        /\ pc = "done" =>
            \A oc \in Profiles :
                LET ok == Repairs(original.instructions, oc)
                IN  ok # {} =>
                        LET i == Min(ok)
                        IN  /\ output =
                                Ok(VariantRun(original.instructions, i, oc)
                                        .self.accumulator)
                            /\ Range(TriedIndices) =
                                {j \in FlippableIndices(original.instructions) :
                                        j <= i}
                            /\ index = i + 1

C4_Witness ==
    /\ caller = "part2"
    /\ pc = "done"
    /\ output.tag = "Ok"
    /\ overflow_checks = "unobserved"
    /\ \E j \in Repairs(original.instructions, "on") :
            /\ j > tried[Len(tried)].index
            /\ VariantRun(original.instructions, j, "on").self.accumulator
                    # output.value

(* C5: on the sample program the only flip whose variant runs to Finished  *)
(* is the one at index 7 (jmp -4 to nop -4); the variants of the other     *)
(* flippable indices end in Loop or OutOfBounds; part2 returns 8.          *)
C5_SampleRepair ==
    caller = "part2" /\ original.instructions = sample_program =>
        /\ \A i \in 0 .. 8 :
                with_flipped_instruction(original, i).ret # None
                    <=> i \in {0, 2, 4, 7}
        /\ \A k \in 1 .. Len(tried) :
                /\ tried[k].index = <<0, 2, 4, 7>>[k]
                /\ tried[k].index # 7 =>
                        tried[k].completion \in {"Loop", "OutOfBounds"}
                /\ tried[k].index = 7 =>
                        /\ tried[k].completion = "Finished"
                        /\ tried[k].instructions =
                                [sample_program EXCEPT ![8] = NoOperation(-4)]
        /\ pc = "done" => output = Ok(8) /\ Len(tried) = 4

C5_Witness ==
    /\ caller = "part2"
    /\ original.instructions = sample_program
    /\ pc = "done"
    /\ output = Ok(8)
    /\ Len(tried) = 4

(* C6: if no flipped variant runs to Finished, part2 returns the error     *)
(* "No correct programs found", after it ran the variant of every          *)
(* flippable index; it returns an error in no other case, and no value     *)
(* before it is done.                                                      *)
C6_Part2NoRepair ==
    caller = "part2" =>
        /\ pc # "done" => output = None
        /\ pc = "done" =>
            \A oc \in Profiles :
                /\ Repairs(original.instructions, oc) = {} =>
                    /\ output = Err("No correct programs found")
                    /\ Range(TriedIndices) =
                            FlippableIndices(original.instructions)
                    /\ \A k \in 1 .. Len(tried) :
                            tried[k].completion \in {"Loop", "OutOfBounds"}
                /\ output.tag # "Ok" =>
                    /\ output.tag = "Err"
                    /\ Repairs(original.instructions, oc) = {}

C6_Witness ==
    /\ caller = "part2"
    /\ pc = "done"
    /\ output = Err("No correct programs found")
    /\ Len(tried) = MaxLen
    /\ \E k \in 1 .. Len(tried) : tried[k].completion = "OutOfBounds"

(* C7: when run() halts on a counter that is no valid index it returns     *)
(* Finished exactly if the counter equals the length, and OutOfBounds      *)
(* exactly if the counter is negative or at least length + 1; Loop is      *)
(* returned only with the counter inside [0, length).                      *)
C7_HaltClassification ==
    InRun /\ pc = "returned" =>
        /\ completion \in {"Loop", "Finished", "OutOfBounds"}
        /\ completion = "Loop" <=> ValidIndex(instructions, counter)
        /\ completion = "Finished" <=> counter = Len(instructions)
        /\ completion = "OutOfBounds" <=>
                counter < 0 \/ counter >= Len(instructions) + 1

C7_Witness ==
    /\ InRun
    /\ pc = "returned"
    /\ completion = "OutOfBounds"
    /\ counter = Len(instructions) + 1

(* C8: a call of step() that returns yields the counter held before the   *)
(* call if that is a valid index and None otherwise, whatever was executed *)
(* before (step() detects no loop); on the sample program the calls return *)
(* 0, 1, 2, 6, 7, 3, 4, 1.                                                 *)
C8_StepReturnsAddress ==
    /\ [][caller = "tests" /\ Len(trace') = Len(trace) + 1 /\ pc' = "test" =>
            /\ ret' = IF counter \in 0 .. Len(instructions) - 1
                      THEN Some(counter) ELSE None
            /\ trace' = Append(trace, ret')]_vars
    /\ [](caller = "tests" /\ instructions = sample_program =>
            \A k \in 1 .. 8 :
                k <= Len(trace) =>
                    trace[k] = Some(<<0, 1, 2, 6, 7, 3, 4, 1>>[k]))

C8_Witness ==
    /\ caller = "tests"
    /\ instructions = sample_program
    /\ Len(trace) = 8
    /\ ret = Some(1)
    /\ trace[2] = Some(1)

(* The receiver and the index of the last with_flipped_instruction call.   *)
FlipCalled ==
    \/ caller = "tests" /\ pc = "flipped"
    \/ caller = "part2" /\ index > 0

FlipIndex == IF caller = "tests" THEN index ELSE index - 1

(* C9: with_flipped_instruction(i) yields None when i is no valid index or *)
(* the instruction at i is Accumulate; for NoOp(n) / Jump(n) at i it       *)
(* yields a program of the same length with Jump(n) / NoOp(n) at i and     *)
(* every other slot as in the receiver.                                    *)
C9_FlipResult ==
    FlipCalled =>
        LET is == original.instructions
            i == FlipIndex
        IN  /\ flipped = None <=>
                    ~(i \in 0 .. Len(is) - 1) \/ is[i + 1].op = "Accumulate"
            /\ flipped # None =>
                LET new == flipped.value.instructions
                IN  /\ flipped.tag = "Some"
                    /\ Len(new) = Len(is)
                    /\ is[i + 1].op = "NoOperation" =>
                            new[i + 1] = Jump(is[i + 1].arg)
                    /\ is[i + 1].op = "Jump" =>
                            new[i + 1] = NoOperation(is[i + 1].arg)
                    /\ \A j \in 1 .. Len(is) : j # i + 1 => new[j] = is[j]

C9_Witness ==
    /\ caller = "tests"
    /\ pc = "flipped"
    /\ Len(instructions) = MaxSmallLen
    /\ index = 1
    /\ flipped # None
    /\ instructions[2] = NoOperation(MaxArg)

(* C10: with_flipped_instruction leaves the receiver as it was, and the    *)
(* variant starts with accumulator 0 and counter 0 whatever the receiver's *)
(* are; so during part2 the decoded program never changes, and every       *)
(* variant ends as its run taken alone from a fresh run-state ends.        *)
C10_FlipLeavesReceiver ==
    /\ [][caller = "tests" /\ pc' = "flipped" =>
            /\ instructions' = instructions
            /\ accumulator' = accumulator
            /\ counter' = counter]_vars
    /\ [][caller = "part2" => original' = original]_vars
    /\ [](flipped # None =>
            flipped.value.accumulator = 0 /\ flipped.value.counter = 0)
    /\ [](caller = "part2" =>
            /\ original.accumulator = 0 /\ original.counter = 0
            /\ \A k \in 1 .. Len(tried) : \A oc \in Profiles :
                LET r == VariantRun(original.instructions, tried[k].index, oc)
                IN  /\ tried[k].instructions = r.self.instructions
                    /\ tried[k].completion = r.completion
                    /\ tried[k].accumulator = r.self.accumulator)

C10_Witness ==
    /\ caller = "tests"
    /\ pc = "flipped"
    /\ flipped # None
    /\ accumulator # 0
    /\ counter > 1
    /\ index < counter

(* C11: run() is deterministic: every run from a fresh run-state ends as   *)
(* the instruction sequence alone (and the build) determines, so any two   *)
(* runs of the same sequence end with the same classification and the      *)
(* same accumulator.                                                       *)
C11_RunDeterministic ==
    InRun /\ pc = "returned" =>
        \A oc \in Profiles :
            LET r == run(from_iter(instructions), oc)
            IN  /\ ~r.panicked
                /\ completion = r.completion
                /\ accumulator = r.self.accumulator
                /\ counter = r.self.counter

C11_Witness ==
    /\ caller = "part2"
    /\ pc = "returned"
    /\ Len(tried) >= 1
    /\ tried[1].completion = "Loop"
    /\ completion = "Loop"
    /\ accumulator # 0

(* A call of step(): the one place the history grows by one.               *)
StepCalled == Len(trace') = Len(trace) + 1

(* C16: a step() that executes applies the effect of the instruction at    *)
(* the counter and nothing else: NoOp adds 1 to the counter, Accumulate(n) *)
(* adds n to the accumulator and 1 to the counter, Jump(n) adds n to the   *)
(* counter (additions in i32 arithmetic); the instruction sequence stays   *)
(* as it is and only Accumulate changes the accumulator.                   *)
C16_StepEffect ==
    [][StepCalled /\ ret'.tag = "Some" =>
        LET instruction == instructions[counter + 1]
            n == instruction.arg
        IN  /\ counter \in 0 .. Len(instructions) - 1
            /\ instructions' = instructions
            /\ instruction.op = "NoOperation" =>
                    /\ counter' = WrappingAdd(counter, 1)
                    /\ accumulator' = accumulator
            /\ instruction.op = "Accumulate" =>
                    /\ counter' = WrappingAdd(counter, 1)
                    /\ accumulator' = WrappingAdd(accumulator, n)
            /\ instruction.op = "Jump" =>
                    /\ counter' = WrappingAdd(counter, n)
                    /\ accumulator' = accumulator]_vars

C16_Witness ==
    /\ caller = "tests"
    /\ Len(trace) = 2
    /\ trace[2].tag = "Some"
    /\ instructions[trace[1].value + 1] = Accumulate(-1)
    /\ instructions[trace[2].value + 1] = Jump(-1)
    /\ accumulator = -1
    /\ counter = 0

(* C18: during run() the set of visited addresses holds valid indices      *)
(* only, holds exactly the addresses executed so far in this run, each of  *)
(* them executed once; so it never has more than length elements.          *)
C18_VisitedSet ==
    InRun =>
        /\ executed_instructions \subseteq 0 .. Len(instructions) - 1
        /\ executed_instructions = ExecutedSet
        /\ Cardinality(executed_instructions) = Len(Executed)
        /\ Cardinality(executed_instructions) <= Len(instructions)

C18_Witness ==
    /\ InRun
    /\ pc = "run"
    /\ Len(instructions) = MaxLen
    /\ Cardinality(executed_instructions) = MaxLen
    /\ Executed[2].value > Executed[3].value

(* C20: a step() at a counter that is no valid index (negative, or at      *)
(* least length) executes nothing: it returns None and leaves accumulator, *)
(* counter and instruction sequence as they are.                           *)
C20_StepAtInvalidCounter ==
    [][StepCalled /\ ~(counter \in 0 .. Len(instructions) - 1) =>
        /\ ret' = None
        /\ accumulator' = accumulator
        /\ counter' = counter
        /\ instructions' = instructions
        /\ pc' # "panicked"]_vars

C20_Witness ==
    /\ caller = "tests"
    /\ pc = "test"
    /\ Len(trace) >= 3
    /\ trace[Len(trace)] = None
    /\ trace[Len(trace) - 1] = None
    /\ counter < 0
    /\ accumulator # 0

(* C17: loop detection by address is sound and complete.  With the same    *)
(* program executed by step() calls alone: if run() returns Loop, that     *)
(* execution never comes to a counter that is no valid index (here: not    *)
(* within MaxCalls calls); if run() returns Finished or OutOfBounds, it    *)
(* comes to one within length calls, with the counter and the accumulator  *)
(* run() ends with.                                                        *)
C17_LoopDetectionExact ==
    caller = "tests" =>
        \A oc \in Profiles :
            LET r == run(from_iter(instructions), oc)
                halted == ~ValidIndex(instructions, counter)
            IN  ~r.panicked =>
                    /\ r.completion = "Loop" => ~halted
                    /\ r.completion # "Loop" =>
                        /\ halted => /\ counter = r.self.counter
                                     /\ accumulator = r.self.accumulator
                        /\ pc = "test" /\ Len(trace) >= Len(instructions)
                                => halted

C17_Witness ==
    /\ caller = "tests"
    /\ pc = "test"
    /\ Len(instructions) = MaxSmallLen
    /\ Len(trace) = MaxCalls
    /\ run(from_iter(instructions), "off").completion = "Loop"
    /\ ValidIndex(instructions, counter)
    /\ accumulator > 1

(* C19: part2 terminates for every decoded program: it is eventually done  *)
(* (or the process aborted on an overflowing addition), having run at most *)
(* length variants, each run executing at most length instructions.        *)
C19_Part2Terminates ==
    /\ [](caller = "part2" =>
            /\ Len(tried) <= Len(original.instructions)
            /\ Len(Executed) <= Len(instructions))
    /\ <>(pc \in {"done", "panicked"})

C19_Witness ==
    /\ caller = "part2"
    /\ pc = "done"
    /\ Len(original.instructions) = MaxSmallLen
    /\ Len(tried) = MaxSmallLen
    /\ Len(Executed) = MaxSmallLen
    /\ output.tag = "Err"

(* The texts all of whose lines are of the documented format, the last     *)
(* line ended by a line terminator or not, with the instructions their     *)
(* lines write down.                                                       *)
ValidLines == {l \in Lines : l.form = "valid"}

ValidSeqs == UNION { [1 .. n -> ValidLines] : n \in 0 .. MaxLines }

ValidTexts ==
    { [text |-> Text(v[1], v[2]),
       instructions |-> [k \in 1 .. Len(v[1]) |-> v[1][k].instruction]] :
      v \in {w \in ValidSeqs \X (0 .. 1) : w[1] = << >> => w[2] = 0} }

(* The call has decoded its text, or failed to.                            *)
Parsed == pc # "parse"

(* The state right after a successful decode.                              *)
JustDecoded ==
    /\ pc \in {"run", "part2"}
    /\ trace = << >>
    /\ index = 0

(* C12: decoding a text whose lines are all valid instructions gives the   *)
(* Program whose instruction i is the variant line i's mnemonic names,     *)
(* with line i's argument, in the order of the lines, with accumulator 0   *)
(* and counter 0.                                                          *)
C12_DecodeValidText ==
    Parsed =>
        \A v \in ValidTexts :
            raw_input = v.text =>
                /\ original = Program(v.instructions, 0, 0)
                /\ JustDecoded => /\ instructions = v.instructions
                                  /\ accumulator = 0
                                  /\ counter = 0

C12_Witness ==
    /\ caller = "part2"
    /\ JustDecoded
    /\ raw_input = << "j", "m", "p", " ", "-", "2", "1", "4", "7", "4", "8",
                      "3", "6", "4", "8", "\n",
                      "a", "c", "c", " ", "-", "9", "9" >>
    /\ instructions = << Jump(MinI32), Accumulate(-99) >>
    /\ accumulator = 0
    /\ counter = 0

(* The texts with a line that has an unknown mnemonic, lacks a token or    *)
(* has an argument that is no integer; and those that start with it.       *)
BadForms == {"unknown mnemonic", "missing token", "non-integer argument"}

BadTexts ==
    { Text(ls, t) :
        ls \in {l \in LineSeqs(MaxLines) :
                    \E k \in 1 .. Len(l) : l[k].form \in BadForms},
        t \in 0 .. MaxNewlines }

BadFirst(form) ==
    { Text(ls, t) :
        ls \in {l \in LineSeqs(MaxLines) : Len(l) >= 1 /\ l[1].form = form},
        t \in 0 .. MaxNewlines }

UnknownMnemonicFirst == BadFirst("unknown mnemonic")

MissingTokenFirst == BadFirst("missing token")

NonIntegerFirst == BadFirst("non-integer argument")

(* The messages of the errors decoding returns.                            *)
DecodeErrors ==
    {"Could not parse instruction chunk", "Could not parse count chunk",
     "Invalid instruction: {}", Empty.message, InvalidDigit.message,
     PosOverflow.message, NegOverflow.message}

(* C13: a text with one line that has an unknown mnemonic, a missing       *)
(* token or a non-integer argument is not decoded: there is no Program,    *)
(* part1 / part2 execute no instruction and return the decode error (that  *)
(* of the bad line when it is the first line).                             *)
C13_BadLineFailsDecode ==
    Parsed /\ raw_input \in BadTexts =>
        /\ pc = "done"
        /\ original = None
        /\ instructions = << >>
        /\ trace = << >>
        /\ executed_instructions = {}
        /\ tried = << >>
        /\ output.tag = "Err"
        /\ output.message \in DecodeErrors
        /\ raw_input \in UnknownMnemonicFirst =>
                output.message = "Invalid instruction: {}"
        /\ raw_input \in MissingTokenFirst =>
                output.message = "Could not parse count chunk"
        /\ raw_input \in NonIntegerFirst =>
                output.message = InvalidDigit.message

C13_Witness ==
    /\ caller = "part2"
    /\ pc = "done"
    /\ raw_input = << "n", "o", "p", " ", "+", "0", "\n",
                      "f", "o", "o", " ", "+", "1", "\n" >>
    /\ output = InvalidInstruction(<< "f", "o", "o" >>)
    /\ original = None
    /\ trace = << >>

(* C14: a valid text followed by one or more empty lines decodes to the    *)
(* Program of the text without them.                                       *)
C14_TrailingBlankLinesIgnored ==
    Parsed =>
        \A v \in ValidTexts, blank \in 1 .. MaxNewlines - 1 :
            /\ v.instructions # << >>
            /\ raw_input = Text(<< [text |-> v.text] >>, blank)
            /\ v.text[Len(v.text)] = "\n"
            => original = Program(v.instructions, 0, 0)

(* The texts with a line that is not of the documented format.             *)
UndocumentedTexts ==
    { Text(ls, t) :
        ls \in {l \in LineSeqs(MaxLines) :
                    \E k \in 1 .. Len(l) : l[k].form # "valid"},
        t \in 0 .. MaxNewlines }

(* C15: a line is accepted only if it is a mnemonic among nop, acc, jmp    *)
(* and an integer with its sign, and nothing else: a text with a line      *)
(* that has a further token, or an integer without sign, is a decode       *)
(* error.                                                                  *)
C15_OnlyDocumentedFormatAccepted ==
    Parsed /\ raw_input \in UndocumentedTexts =>
        /\ pc = "done"
        /\ original = None
        /\ output.tag = "Err"
        /\ output.message \in DecodeErrors

(* C21: no step of a run leaves the i32 range: whatever the arguments,     *)
(* accumulator + n and counter + 1 or counter + n are computed without     *)
(* overflow, so that run() neither aborts nor wraps around.  An addition   *)
(* that overflows is what makes the build observed.                        *)
C21_NoOverflow ==
    InRun =>
        /\ pc # "panicked"
        /\ overflow_checks = "unobserved"

(* The run of the program as it was decoded, taken alone.                  *)
OwnRun(oc) == run(from_iter(original.instructions), oc)

(* C22: part2 never runs the unmodified program as a candidate; when the   *)
(* program's own run reaches Finished but no flipped variant does, part2   *)
(* returns the error "No correct programs found", not the accumulator of   *)
(* the program's own run.                                                  *)
C22_UnmodifiedNeverTried ==
    caller = "part2" =>
        /\ \A k \in 1 .. Len(tried) :
                tried[k].instructions # original.instructions
        /\ pc \in {"run", "returned"} => instructions # original.instructions
        /\ pc = "done" =>
            \A oc \in Profiles :
                /\ ~OwnRun(oc).panicked
                /\ OwnRun(oc).completion = "Finished"
                /\ Repairs(original.instructions, oc) = {}
                => /\ output = part2_bailed
                   /\ output # Ok(OwnRun(oc).self.accumulator)

C22_Witness ==
    /\ caller = "part2"
    /\ pc = "done"
    /\ output = part2_bailed
    /\ Len(tried) >= 1
    /\ \E k \in 1 .. Len(original.instructions) :
            original.instructions[k].op = "Accumulate"
    /\ OwnRun("on").completion = "Finished"
    /\ OwnRun("on").self.accumulator > 0

(* C23: run() keeps no set of executed addresses between calls and goes    *)
(* on from the counter and accumulator the Program has: a call of run()    *)
(* after one that returned c returns c again, and after Finished or        *)
(* OutOfBounds it leaves accumulator and counter as they were.             *)
C23_RunAgain ==
    /\ pc = "run" /\ trace = << >> /\ tried # << >> =>
            /\ executed_instructions = {}
            /\ accumulator = tried[Len(tried)].accumulator
            /\ counter = tried[Len(tried)].counter
    /\ \A k \in 2 .. Len(tried) :
            /\ tried[k].completion = tried[k - 1].completion
            /\ tried[k - 1].completion \in {"Finished", "OutOfBounds"} =>
                    /\ tried[k].accumulator = tried[k - 1].accumulator
                    /\ tried[k].counter = tried[k - 1].counter

C23_Witness ==
    /\ caller = "tests"
    /\ pc = "test"
    /\ Len(tried) >= 2
    /\ tried[1].completion = "Loop"
    /\ tried[2].completion = "Loop"
    /\ tried[2].counter = tried[1].counter
    /\ tried[2].accumulator > tried[1].accumulator

====
